---- MODULE Spec2Model ----
(***************************************************************************)
(* API-Telegram (src/app.js): a single Node.js process that binds an HTTP  *)
(* listener with port retry, sends a startup notification with currency    *)
(* rates, and repeats the report on a daily cron task.                     *)
(*                                                                         *)
(* The module has two layers.                                              *)
(*   1. Numbers and text: parseFloat, IEEE-754 binary64 addition, halving  *)
(*      and Number.prototype.toFixed(2), computed bit by bit, and the      *)
(*      caption the two pipelines build from an API response.              *)
(*   2. The process: the bind state machine of startServer, the two report *)
(*      pipelines suspended at their awaits, the cron task, GET / and the  *)
(*      shutdown sequence, one action per callback of the event loop.      *)
(***************************************************************************)
EXTENDS Integers, Sequences, FiniteSets, TLC

(***************************************************************************)
(* Layer 1a: bit strings.  A natural number is a sequence of bits, most    *)
(* significant first.                                                      *)
(***************************************************************************)

\* Significand width of a JavaScript Number (IEEE-754 binary64).
MantBits == 53

\* Bit strings are added, multiplied and generated Chunk bits at a time, so
\* that every intermediate value stays an exact small integer.
Chunk == 15

Max(a, b) == IF a >= b THEN a ELSE b

Min(a, b) == IF a <= b THEN a ELSE b

RECURSIVE Pow10(_)
Pow10(s) == IF s = 0 THEN 1 ELSE 10 * Pow10(s - 1)

RECURSIVE Pow2(_)
Pow2(n) == IF n = 0 THEN 1 ELSE 2 * Pow2(n - 1)

Zeros(n) == [i \in 1..n |-> 0]

\* The w low binary digits of n, most significant first.
NatBits(n, w) == [i \in 1..w |-> (n \div Pow2(w - i)) % 2]

RECURSIVE BitLen(_)
BitLen(n) == IF n = 0 THEN 0 ELSE 1 + BitLen(n \div 2)

\* Binary digits of n >= 0 without leading zeros (<<>> for 0).
IntBits(n) == NatBits(n, BitLen(n))

RECURSIVE BitsToNat(_)
\* The value of a bit string short enough to be a small integer.
BitsToNat(b) ==
  IF Len(b) = 0 THEN 0
  ELSE IF Len(b) = 1 THEN b[1]
  ELSE LET h == Len(b) \div 2
       IN  BitsToNat(SubSeq(b, 1, h)) * Pow2(Len(b) - h)
             + BitsToNat(SubSeq(b, h + 1, Len(b)))

PadLeft(b, n) == Zeros(n - Len(b)) \o b

RECURSIVE AddFrom(_, _, _, _)
\* Ripple-carry addition of the leading n bits of the equal-length strings
\* a and b, with the carry coming into position n.
AddFrom(a, b, n, carry) ==
  IF n = 0 THEN IntBits(carry)
  ELSE LET w == Min(n, Chunk)
           t == BitsToNat(SubSeq(a, n - w + 1, n))
                  + BitsToNat(SubSeq(b, n - w + 1, n)) + carry
       IN  AddFrom(a, b, n - w, t \div Pow2(w)) \o NatBits(t % Pow2(w), w)

BitsAdd(a, b) ==
  LET n == Max(Len(a), Len(b))
  IN  AddFrom(PadLeft(a, n), PadLeft(b, n), n, 0)

RECURSIVE MulFrom(_, _, _, _)
\* The leading n bits of a times the small constant c, plus the carry
\* coming into position n.
MulFrom(a, c, n, carry) ==
  IF n = 0 THEN IntBits(carry)
  ELSE LET w == Min(n, Chunk)
           t == BitsToNat(SubSeq(a, n - w + 1, n)) * c + carry
       IN  MulFrom(a, c, n - w, t \div Pow2(w)) \o NatBits(t % Pow2(w), w)

BitsMulSmall(a, c) == MulFrom(a, c, Len(a), 0)

AnyOne(b) == \E i \in 1..Len(b) : b[i] = 1

(***************************************************************************)
(* Layer 1b: Numbers.  A Number is NaN, +Infinity, +0 or a positive finite *)
(* double [m, e] of value m * 2^e with m a 53-bit string whose first bit   *)
(* is 1.  (The inputs are unsigned and far from the subnormal and overflow *)
(* ranges, so signs, subnormals and overflow to Infinity do not occur.)    *)
(***************************************************************************)
NaN == [k |-> "nan"]

Infinity == [k |-> "inf"]

Zero == [k |-> "zero"]

Fin(m, e) == [k |-> "fin", m |-> m, e |-> e]

\* Round the bit string `all` (value all * 2^e, first bit 1, length >= 53)
\* to 53 bits, to nearest, ties to even; `sticky` says that nonzero bits
\* lie below `all`.
RoundNearestEven(all, e, sticky) ==
  LET keep == SubSeq(all, 1, MantBits)
      rest == SubSeq(all, MantBits + 1, Len(all))
      e1   == e + Len(rest)
      guard == Len(rest) > 0 /\ rest[1] = 1
      below == sticky \/ (Len(rest) > 1 /\ AnyOne(Tail(rest)))
      up    == guard /\ (below \/ keep[MantBits] = 1)
      inc   == BitsAdd(keep, <<1>>)
  IN  IF ~up THEN Fin(keep, e1)
      ELSE IF Len(inc) > MantBits THEN Fin(SubSeq(inc, 1, MantBits), e1 + 1)
      ELSE Fin(inc, e1)

RECURSIVE FracBits(_, _, _)
\* The next n bits of the binary expansion of r / d (0 <= r < d), with the
\* remainder left after them.
FracBits(r, d, n) ==
  IF n = 0 THEN [bits |-> <<>>, r |-> r]
  ELSE LET w    == Min(n, Chunk)
           more == FracBits((r * Pow2(w)) % d, d, n - w)
       IN  [bits |-> NatBits((r * Pow2(w)) \div d, w) \o more.bits,
            r |-> more.r]

RECURSIVE LeadingZeros(_, _)
\* Number of zero bits before the first one bit of the expansion of r / d
\* (0 < r < d).
LeadingZeros(r, d) == IF 2 * r >= d THEN 0 ELSE 1 + LeadingZeros(2 * r, d)

\* The Number nearest to the decimal n / 10^s (the MV of a StrDecimalLiteral
\* rounded to the Number type).
DecimalToNumber(n, s) ==
  IF n = 0 THEN Zero
  ELSE LET d  == Pow10(s)
           ip == IntBits(n \div d)
           z  == IF Len(ip) > 0 THEN 0 ELSE LeadingZeros(n % d, d)
           r0 == (n % d) * Pow2(z)
           \* one bit more than the significand: the guard bit
           fr == FracBits(r0, d, MantBits + 1 - Len(ip))
       IN  RoundNearestEven(ip \o fr.bits, 0 - (z + MantBits + 1 - Len(ip)),
                            fr.r # 0)

\* x + y for Numbers that are not NaN.
NumAdd(x, y) ==
  IF x.k = "inf" \/ y.k = "inf" THEN Infinity
  ELSE IF x.k = "zero" THEN y
  ELSE IF y.k = "zero" THEN x
  ELSE LET e0 == Min(x.e, y.e)
           xa == x.m \o Zeros(x.e - e0)
           ya == y.m \o Zeros(y.e - e0)
       IN  RoundNearestEven(BitsAdd(xa, ya), e0, FALSE)

\* x / 2: exact for a normal double.
NumHalf(x) == IF x.k = "fin" THEN Fin(x.m, x.e - 1) ELSE x

\* A rendering that cuts the digits after the second decimal off.
ToFixed2Truncating(x) ==
  IF x.k = "inf" THEN [t |-> "Infinity"]
  ELSE IF x.k = "zero" THEN [t |-> "num", cents |-> 0]
  ELSE LET p == BitsMulSmall(x.m, 100)
           f == 0 - x.e
       IN  [t |-> "num",
            cents |-> IF Len(p) > f THEN BitsToNat(SubSeq(p, 1, Len(p) - f)) ELSE 0]

\* x.toFixed(2) for x not NaN: "Infinity", or the integer n of hundredths
\* for which n / 100 - x is as close to zero as possible, the larger n of
\* two; the text is n div 100, a point, and two digits of n mod 100.
ToFixed2(x) ==
  IF x.k = "inf" THEN [t |-> "Infinity"]
  ELSE IF x.k = "zero" THEN [t |-> "num", cents |-> 0]
  ELSE LET p == BitsMulSmall(x.m, 100)
           f == 0 - x.e
           whole == IF Len(p) > f THEN BitsToNat(SubSeq(p, 1, Len(p) - f)) ELSE 0
           half  == IF f >= 1 /\ Len(p) >= f THEN p[Len(p) - f + 1] ELSE 0
       IN  [t |-> "num", cents |-> whole + half]

(***************************************************************************)
(* Layer 1c: parseFloat.  parseFloat works on ToString of its argument, a  *)
(* sequence of characters: a price field is a string, a JSON number (its   *)
(* ToString) or undefined (the field, or an object on the way to it, is    *)
(* missing), whose ToString is "undefined".  The strings used here carry   *)
(* no sign and no exponent part.                                           *)
(***************************************************************************)
Undefined == <<"u", "n", "d", "e", "f", "i", "n", "e", "d">>

Digits == <<"0", "1", "2", "3", "4", "5", "6", "7", "8", "9">>

IsDigit(c) == \E d \in 1..10 : Digits[d] = c

DigitVal(c) == (CHOOSE d \in 1..10 : Digits[d] = c) - 1

InfinityText == <<"I", "n", "f", "i", "n", "i", "t", "y">>

RECURSIVE TrimLeft(_)
\* Leading white space is skipped.
TrimLeft(s) == IF Len(s) > 0 /\ s[1] = " " THEN TrimLeft(Tail(s)) ELSE s

RECURSIVE DigitRun(_, _)
\* How many digits s holds from position i on, up to the first non-digit.
DigitRun(s, i) ==
  IF i <= Len(s) /\ IsDigit(s[i]) THEN 1 + DigitRun(s, i + 1) ELSE 0

RECURSIVE NatOf(_)
\* The value of a string of digits.
NatOf(s) ==
  IF Len(s) = 0 THEN 0
  ELSE 10 * NatOf(SubSeq(s, 1, Len(s) - 1)) + DigitVal(s[Len(s)])

HasPrefix(s, p) == Len(s) >= Len(p) /\ SubSeq(s, 1, Len(p)) = p

\* parseFloat(v): the value of the longest prefix of the trimmed ToString(v)
\* that is a StrDecimalLiteral, NaN when no prefix is one.
ParseFloat(v) ==
  LET s  == TrimLeft(v)
      ni == DigitRun(s, 1)
      nf == IF ni < Len(s) /\ s[ni + 1] = "." THEN DigitRun(s, ni + 2) ELSE 0
  IN  IF HasPrefix(s, InfinityText) THEN Infinity
      ELSE IF ni = 0 /\ nf = 0 THEN NaN
      ELSE DecimalToNumber(
             NatOf(SubSeq(s, 1, ni) \o SubSeq(s, ni + 2, ni + 1 + nf)), nf)

IsNaN(x) == x.k = "nan"

(***************************************************************************)
(* Layer 1d: captions.  A caption is the text both pipelines build: the    *)
(* report kind (the startup and the daily texts differ in their title and  *)
(* notices), the body it carries, and the three figures of a rates body.   *)
(* The date prefix is the same in every body and is left out.              *)
(***************************************************************************)
NoFigure == [t |-> "none"]

Caption(kind, body, bcv, par, avg) ==
  [kind |-> kind, body |-> body, bcv |-> bcv, par |-> par, avg |-> avg]

\* The caption after a response arrived: the rates body when both prices
\* pass the isNaN test, the "rates unavailable" body otherwise.
RatesCaption(kind, bcvPrice, paraleloPrice) ==
  LET bcvNum      == ParseFloat(bcvPrice)
      paraleloNum == ParseFloat(paraleloPrice)
  IN  IF ~IsNaN(bcvNum) /\ ~IsNaN(paraleloNum)
      THEN Caption(kind, "rates", ToFixed2(bcvNum), ToFixed2(paraleloNum),
                   ToFixed2(NumHalf(NumAdd(bcvNum, paraleloNum))))
      ELSE Caption(kind, "unavailable", NoFigure, NoFigure, NoFigure)

\* The caption after axios.get rejected (network error, timeout, non-2xx).
FetchErrorCaption(kind) ==
  Caption(kind, "fetchError", NoFigure, NoFigure, NoFigure)

\* The caption when PYDOLARVE_API_URL is not set.
UnconfiguredCaption(kind) ==
  Caption(kind, "unconfigured", NoFigure, NoFigure, NoFigure)

(***************************************************************************)
(* Layer 1e: what the rate API may answer.                                 *)
(***************************************************************************)
RECURSIVE DigitsOf(_)
\* The decimal digits of n > 0.
DigitsOf(n) ==
  IF n = 0 THEN <<>> ELSE Append(DigitsOf(n \div 10), Digits[(n % 10) + 1])

\* The text of n thousandths with three decimals: 36505 is "36.505".
MilliText(n) ==
  DigitsOf(n \div 1000) \o <<".">>
    \o <<Digits[((n \div 100) % 10) + 1], Digits[((n \div 10) % 10) + 1],
         Digits[(n % 10) + 1]>>

\* Number of steps of the price grid.
RateSpan == 4

\* The price grid, in thousandths: 36.500, 36.505, 36.510, ...
GridPrices == {36500 + 5 * i : i \in 0..RateSpan}

\* Prices that are not plain decimal numbers.
OddPrices ==
  { Undefined,
    <<>>,
    <<"a", "b", "c">>,
    <<"3", "6", ".", "5", "a", "b", "c">>,
    <<"3", "6", ",", "5", "0">>,
    InfinityText }

RatePrices == {MilliText(n) : n \in GridPrices \cup {40000}} \cup OddPrices

\* axios.get rejected: no response, a timeout after 10 s, a non-2xx status.
ApiError == [ok |-> FALSE, bcv |-> <<>>, par |-> <<>>]

ApiData(bcvPrice, paraleloPrice) ==
  [ok |-> TRUE, bcv |-> bcvPrice, par |-> paraleloPrice]

\* No response received (yet).
NoResponse == [ok |-> FALSE, bcv |-> <<"-">>, par |-> <<"-">>]

\* Every answer considered: any pair of prices, or a failure.
RateResponses ==
  {ApiError} \cup {ApiData(b, q) : b \in RatePrices, q \in RatePrices}

\* The answers of the process model: a failure, or two good prices.
Responses == {ApiError, ApiData(MilliText(36500), MilliText(40000))}

Kinds == {"startup", "daily"}

\* The caption of every answer, computed once.
CaptionTable ==
  [k \in Kinds, r \in RateResponses |->
     IF r.ok THEN RatesCaption(k, r.bcv, r.par) ELSE FetchErrorCaption(k)]

(***************************************************************************)
(* Layer 2: the process.                                                   *)
(***************************************************************************)
\* parseInt(process.env.PORT || '10000', 10) with PORT unset.
InitialPort == 10000

MAX_PORT_ATTEMPTS == 10

\* Daily ticks of one run.
MaxTicks == 2

\* Calls of shutdown in one run, by signals and uncaught exceptions.
MaxShutdowns == 2

\* Unhandled promise rejections of one run.
MaxRejections == 1

\* Ports in use below the first port that is not: a run finds a port among
\* the first MaxBusy + 1, or finds every port in use.
MaxBusy == 1

\* The ports a run can ask for (two more than the code tries).
Ports == InitialPort..(InitialPort + MAX_PORT_ATTEMPTS + 1)

VARIABLES
  env,             \* the configuration read from the environment
  phase,           \* "boot", "run" or "exited"
  exitCode,        \* the status given to process.exit, -1 while running
  exitBy,          \* which process.exit call ended the process
  servers,         \* the http.Server objects created, in order
  bind,            \* where startServer's retry loop stands
  portStatus,      \* what the operating system answered for each port
  serverInstance,  \* index in servers of serverInstance, 0 for null
  startup,         \* the invocation of sendTelegramStartupPhotoWithRates
  daily,           \* the invocations of sendDailyUpdate, one per tick
  cron,            \* the daily task
  shut,            \* the shutdown sequence
  conn,            \* a client connection is still open
  lastGet          \* the last answer of GET /

vars ==
  <<env, phase, exitCode, exitBy, servers, bind, portStatus, serverInstance,
    startup, daily, cron, shut, conn, lastGet>>

procVars == <<phase, exitCode, exitBy>>

bindVars == <<servers, bind, portStatus, serverInstance>>

pipeVars == <<startup, daily, cron>>

shutVars == <<shut, conn>>

Envs ==
  [botToken : BOOLEAN, chatId : BOOLEAN, botCtorOk : BOOLEAN,
   imageUrl : BOOLEAN, dollarApiUrl : BOOLEAN]

NoCaption == Caption("none", "none", NoFigure, NoFigure, NoFigure)

NoText == [banner |-> FALSE, caption |-> NoCaption]

\* An invocation of a pipeline that has not run yet.
NewInvocation(kind) ==
  [ kind    |-> kind,
    pc      |-> "idle",       \* "idle", "fetch", "photo", "msg", "done"
    resp    |-> NoResponse,   \* what axios.get answered
    caption |-> NoCaption,    \* captionText
    gets    |-> 0,            \* axios.get calls issued
    photos  |-> 0,            \* bot.sendPhoto calls issued
    msgs    |-> 0,            \* bot.sendMessage calls issued
    photoSt |-> "none",       \* "none", "ok", "fail"
    msgSt   |-> "none",
    msgText |-> NoText,       \* the text given to bot.sendMessage
    logs    |-> {},           \* errors written to the console
    result  |-> "pending",    \* "pending", "returned", "threw"
    calls   |-> 0,            \* how often the function was called
    srv     |-> 0 ]           \* the server whose listen callback called it

Exit(code, by) ==
  /\ phase' = "exited"
  /\ exitCode' = code
  /\ exitBy' = by

Init ==
  /\ env \in Envs
  /\ phase = "boot"
  /\ exitCode = -1
  /\ exitBy = "none"
  /\ servers = <<>>
  /\ bind = [st |-> "none", port |-> InitialPort]
  /\ portStatus = [q \in Ports |-> "unknown"]
  /\ serverInstance = 0
  /\ startup = NewInvocation("startup")
  /\ daily = <<>>
  /\ cron = [calls |-> 0, armed |-> FALSE, ticks |-> 0, srv |-> 0]
  /\ shut = [calls |-> 0, closing |-> FALSE, force |-> FALSE, rejections |-> 0]
  /\ conn = FALSE
  /\ lastGet = [status |-> 0, body |-> "none", port |-> 0]

(***************************************************************************)
(* startServer and its callbacks.                                          *)
(***************************************************************************)
\* A guard that lets one port too many be tried.
CapReachedLate(currentPort) == currentPort > InitialPort + MAX_PORT_ATTEMPTS

\* The guard of startServer: no port is left to try.
CapReached(currentPort) == currentPort >= InitialPort + MAX_PORT_ATTEMPTS

\* A retry of the same port.
NextPortSame(currentPort) == currentPort

\* A retry that skips a port.
NextPortSkipping(currentPort) == currentPort + 2

\* The port the retry timer passes to startServer.
NextPort(currentPort) == currentPort + 1

\* The status process.exit gets when the ports are used up.
CapExitCode == 1

\* startServer(currentPort): give up at the cap, or create a server and
\* call listen on it.
StartServer(currentPort) ==
  IF CapReached(currentPort)
  THEN /\ Exit(CapExitCode, "ports")
       /\ UNCHANGED <<servers, bind>>
  ELSE /\ servers' = Append(servers, [port |-> currentPort, st |-> "listenCalled"])
       /\ bind' = [st |-> "listen", port |-> currentPort]
       /\ phase' = "run"
       /\ UNCHANGED <<exitCode, exitBy>>

\* A top level that does not check the chat id.
BootWithoutChatCheck ==
  /\ phase = "boot"
  /\ IF ~env.botToken THEN Exit(1, "config") /\ UNCHANGED <<servers, bind>>
     ELSE IF ~env.botCtorOk THEN Exit(1, "bot") /\ UNCHANGED <<servers, bind>>
     ELSE StartServer(InitialPort)
  /\ UNCHANGED <<env, portStatus, serverInstance, pipeVars, shutVars, lastGet>>

\* The top level of app.js: the checks of the configuration, the bot, and
\* startServer(initialPort).
Boot ==
  /\ phase = "boot"
  /\ IF ~env.botToken THEN Exit(1, "config") /\ UNCHANGED <<servers, bind>>
     ELSE IF ~env.chatId THEN Exit(1, "config") /\ UNCHANGED <<servers, bind>>
     ELSE IF ~env.botCtorOk THEN Exit(1, "bot") /\ UNCHANGED <<servers, bind>>
     ELSE StartServer(InitialPort)
  /\ UNCHANGED <<env, portStatus, serverInstance, pipeVars, shutVars, lastGet>>

\* The server that startServer created last.
Current == Len(servers)

\* The 'error' handler's answer to EADDRINUSE: server.close(callback).
OnAddrInUse(srvs) == [srvs EXCEPT ![Len(srvs)].st = "closing"]

\* 'error' with code EADDRINUSE.
ListenAddrInUse ==
  /\ phase = "run"
  /\ bind.st = "listen"
  /\ portStatus[bind.port] \in {"unknown", "inuse"}
  /\ portStatus' = [portStatus EXCEPT ![bind.port] = "inuse"]
  /\ servers' = OnAddrInUse(servers)
  /\ bind' = [bind EXCEPT !.st = "closing"]
  /\ UNCHANGED <<env, procVars, serverInstance, pipeVars, shutVars, lastGet>>

\* The callback of server.close in the 'error' handler: the retry timer is
\* set.
FailedServerClosed ==
  /\ phase = "run"
  /\ bind.st = "closing"
  /\ servers' = [servers EXCEPT ![Current].st = "closed"]
  /\ bind' = [bind EXCEPT !.st = "delay"]
  /\ UNCHANGED <<env, procVars, portStatus, serverInstance, pipeVars, shutVars,
                 lastGet>>

\* The retry timer fires after 200 ms: startServer(currentPort + 1).
RetryTimer ==
  /\ phase = "run"
  /\ bind.st = "delay"
  /\ StartServer(NextPort(bind.port))
  /\ UNCHANGED <<env, portStatus, serverInstance, pipeVars, shutVars, lastGet>>

\* An 'error' handler that retries after any error.
ListenOtherErrorRetrying ==
  /\ phase = "run"
  /\ bind.st = "listen"
  /\ portStatus[bind.port] \in {"unknown", "error"}
  /\ portStatus' = [portStatus EXCEPT ![bind.port] = "error"]
  /\ servers' = OnAddrInUse(servers)
  /\ bind' = [bind EXCEPT !.st = "closing"]
  /\ UNCHANGED <<env, procVars, serverInstance, pipeVars, shutVars, lastGet>>

\* 'error' with any other code: fatal.
ListenOtherError ==
  /\ phase = "run"
  /\ bind.st = "listen"
  /\ portStatus[bind.port] \in {"unknown", "error"}
  /\ portStatus' = [portStatus EXCEPT ![bind.port] = "error"]
  /\ servers' = [servers EXCEPT ![Current].st = "failed"]
  /\ Exit(1, "listenError")
  /\ UNCHANGED <<env, bind, serverInstance, pipeVars, shutVars, lastGet>>

(***************************************************************************)
(* The two pipelines.  An invocation runs from its call to its first       *)
(* await, and from each settled await to the next one or to its end.       *)
(***************************************************************************)
\* bot.sendPhoto(chatId, imageUrl, {caption: captionText}) is issued.
SendPhoto(inv) == [inv EXCEPT !.pc = "photo", !.photos = @ + 1]

\* A pipeline that sends a text when no image is configured.
BeginPipelineTextOnly(kind) ==
  IF ~env.imageUrl
  THEN [NewInvocation(kind) EXCEPT !.pc = "msg", !.msgs = 1]
  ELSE IF env.dollarApiUrl
  THEN [NewInvocation(kind) EXCEPT !.pc = "fetch", !.gets = 1]
  ELSE SendPhoto([NewInvocation(kind) EXCEPT
                    !.caption = UnconfiguredCaption(kind)])

\* A pipeline that asks the rate API whether or not its URL is configured.
BeginPipelineAlwaysFetching(kind) ==
  IF ~env.imageUrl
  THEN [NewInvocation(kind) EXCEPT !.pc = "done", !.result = "returned"]
  ELSE [NewInvocation(kind) EXCEPT !.pc = "fetch", !.gets = 1]

\* From the call to the first await.
BeginPipeline(kind) ==
  IF ~env.imageUrl
  THEN [NewInvocation(kind) EXCEPT !.pc = "done", !.result = "returned"]
  ELSE IF env.dollarApiUrl
  THEN [NewInvocation(kind) EXCEPT !.pc = "fetch", !.gets = 1]
  ELSE SendPhoto([NewInvocation(kind) EXCEPT
                    !.caption = UnconfiguredCaption(kind)])

\* A pipeline that lets a failure of axios.get escape.
OnFetchSettledRethrowing(inv, r) ==
  IF r.ok
  THEN SendPhoto([inv EXCEPT !.resp = r, !.caption = CaptionTable[inv.kind, r]])
  ELSE [inv EXCEPT !.resp = r, !.pc = "done", !.result = "threw"]

\* axios.get settled with answer r: the caption is built and the photo sent.
OnFetchSettled(inv, r) ==
  SendPhoto([inv EXCEPT !.resp = r, !.caption = CaptionTable[inv.kind, r]])

\* A fallback that sends the caption without the banner.
FallbackTextBare(captionText) == [banner |-> FALSE, caption |-> captionText]

\* The text of the fallback message.
FallbackText(captionText) == [banner |-> TRUE, caption |-> captionText]

\* How an invocation ends when the fallback message failed too.
FallbackFailedResult == "returned"

\* bot.sendPhoto settled.
OnPhotoSettled(inv, ok) ==
  IF ok
  THEN [inv EXCEPT !.pc = "done", !.photoSt = "ok", !.result = "returned"]
  ELSE [inv EXCEPT !.photoSt = "fail",
                   !.logs = @ \cup {"photoError"},
                   !.pc = "msg",
                   !.msgs = @ + 1,
                   !.msgText = FallbackText(inv.caption)]

\* bot.sendMessage settled.
OnMessageSettled(inv, ok) ==
  IF ok
  THEN [inv EXCEPT !.pc = "done", !.msgSt = "ok", !.result = "returned"]
  ELSE [inv EXCEPT !.pc = "done", !.msgSt = "fail",
                   !.logs = @ \cup {"fallbackError"},
                   !.result = FallbackFailedResult]

\* A listen callback that calls cron.schedule each time it runs on.
ScheduleDailyEachStep(c, inv) ==
  [c EXCEPT !.calls = @ + 1, !.armed = TRUE, !.srv = inv.srv]

\* A listen callback that gives up when both startup sends failed.
ScheduleDailyOnSuccess(c, inv) ==
  IF inv.pc = "done" /\ inv.result = "returned" /\ inv.msgSt # "fail"
  THEN [c EXCEPT !.calls = @ + 1, !.armed = TRUE, !.srv = inv.srv]
  ELSE c

\* A listen callback that does not await the startup pipeline.
ScheduleDailyUnawaited(c, inv) ==
  IF c.calls = 0
  THEN [c EXCEPT !.calls = 1, !.armed = TRUE, !.srv = inv.srv]
  ELSE c

\* The rest of the listen callback, after await
\* sendTelegramStartupPhotoWithRates(): cron.schedule, unless the await
\* threw (the callback's promise is then rejected, which the
\* 'unhandledRejection' handler only logs).
ScheduleDaily(c, inv) ==
  IF inv.pc = "done" /\ inv.result = "returned"
  THEN [c EXCEPT !.calls = @ + 1, !.armed = TRUE, !.srv = inv.srv]
  ELSE c

\* The startup invocation after a step, with the log of a rejection.
Resumed(inv) ==
  IF inv.pc = "done" /\ inv.result = "threw"
  THEN [inv EXCEPT !.logs = @ \cup {"unhandledRejection"}]
  ELSE inv

\* The listen callback: serverInstance is set, the startup pipeline is
\* called, and runs to its first await.
Listening ==
  /\ phase = "run"
  /\ bind.st = "listen"
  /\ portStatus[bind.port] \in {"unknown", "free"}
  /\ Cardinality({q \in Ports : portStatus[q] = "inuse"}) <= MaxBusy
  /\ portStatus' = [portStatus EXCEPT ![bind.port] = "free"]
  /\ servers' = [servers EXCEPT ![Current].st = "listening"]
  /\ bind' = [bind EXCEPT !.st = "bound"]
  /\ serverInstance' = Current
  /\ LET inv == [BeginPipeline("startup") EXCEPT
                   !.calls = startup.calls + 1, !.srv = Current]
     IN  /\ startup' = Resumed(inv)
         /\ cron' = ScheduleDaily(cron, inv)
  /\ UNCHANGED <<env, procVars, daily, shutVars, lastGet>>

\* axios.get of the startup pipeline settles with answer r.
StartupFetched(r) ==
  /\ phase = "run"
  /\ startup.pc = "fetch"
  /\ startup' = OnFetchSettled(startup, r)
  /\ UNCHANGED <<env, procVars, bindVars, daily, cron, shutVars, lastGet>>

\* bot.sendPhoto of the startup pipeline settles.
StartupPhotoSettled ==
  /\ phase = "run"
  /\ startup.pc = "photo"
  /\ \E ok \in BOOLEAN :
       LET inv == OnPhotoSettled(startup, ok)
       IN  /\ startup' = Resumed(inv)
           /\ cron' = ScheduleDaily(cron, inv)
  /\ UNCHANGED <<env, procVars, bindVars, daily, shutVars, lastGet>>

\* bot.sendMessage of the startup pipeline settles.
StartupMessageSettled ==
  /\ phase = "run"
  /\ startup.pc = "msg"
  /\ \E ok \in BOOLEAN :
       LET inv == OnMessageSettled(startup, ok)
       IN  /\ startup' = Resumed(inv)
           /\ cron' = ScheduleDaily(cron, inv)
  /\ UNCHANGED <<env, procVars, bindVars, daily, shutVars, lastGet>>

(***************************************************************************)
(* The daily task.                                                         *)
(***************************************************************************)
\* The .catch of the task's callback: a rejection of sendDailyUpdate is
\* logged.
Caught(inv) ==
  IF inv.pc = "done" /\ inv.result = "threw"
  THEN [inv EXCEPT !.logs = @ \cup {"cronJobError"}]
  ELSE inv

\* A task that is stopped by an invocation whose two sends failed.
AfterTickStopping(c, inv) ==
  IF inv.pc = "done" /\ inv.msgSt = "fail"
  THEN [c EXCEPT !.armed = FALSE]
  ELSE c

\* What a settled invocation does to the task: nothing.
AfterTick(c, inv) == c

\* The task fires (14:00 UTC+3): sendDailyUpdate() is called and runs to its
\* first await.  A day lies between two ticks, and axios.get gives up after
\* 10 s: no rate request of an earlier tick is still pending.
Tick ==
  /\ phase = "run"
  /\ cron.armed
  /\ cron.ticks < MaxTicks
  /\ \A i \in 1..Len(daily) : daily[i].pc # "fetch"
  /\ LET inv == [BeginPipeline("daily") EXCEPT !.calls = 1]
     IN  /\ daily' = Append(daily, Caught(inv))
         /\ cron' = AfterTick([cron EXCEPT !.ticks = @ + 1], inv)
  /\ UNCHANGED <<env, procVars, bindVars, startup, shutVars, lastGet>>

\* axios.get of the i-th daily invocation settles with answer r.
DailyFetched(i, r) ==
  /\ phase = "run"
  /\ daily[i].pc = "fetch"
  /\ daily' = [daily EXCEPT ![i] = OnFetchSettled(@, r)]
  /\ UNCHANGED <<env, procVars, bindVars, startup, cron, shutVars, lastGet>>

\* bot.sendPhoto of the i-th daily invocation settles.
DailyPhotoSettled(i) ==
  /\ phase = "run"
  /\ daily[i].pc = "photo"
  /\ \E ok \in BOOLEAN :
       LET inv == OnPhotoSettled(daily[i], ok)
       IN  /\ daily' = [daily EXCEPT ![i] = Caught(inv)]
           /\ cron' = AfterTick(cron, inv)
  /\ UNCHANGED <<env, procVars, bindVars, startup, shutVars, lastGet>>

\* bot.sendMessage of the i-th daily invocation settles.
DailyMessageSettled(i) ==
  /\ phase = "run"
  /\ daily[i].pc = "msg"
  /\ \E ok \in BOOLEAN :
       LET inv == OnMessageSettled(daily[i], ok)
       IN  /\ daily' = [daily EXCEPT ![i] = Caught(inv)]
           /\ cron' = AfterTick(cron, inv)
  /\ UNCHANGED <<env, procVars, bindVars, startup, shutVars, lastGet>>

(***************************************************************************)
(* GET /.                                                                  *)
(***************************************************************************)
\* serverInstance.address(): the bound address, null once the server has
\* stopped listening.
HasAddress(i) == servers[i].st = "listening"

\* The handler of GET /: 200 with the port of serverInstance, 200 with
\* 'unknown' when serverInstance is null, and 500 (express's answer to the
\* TypeError) when address() is null.
RunningPort ==
  IF serverInstance = 0 THEN [status |-> 200, body |-> "unknown", port |-> 0]
  ELSE IF HasAddress(serverInstance)
  THEN [status |-> 200, body |-> "port", port |-> servers[serverInstance].port]
  ELSE [status |-> 500, body |-> "error", port |-> 0]

\* A request arrives: on a new connection while a server listens, or on a
\* connection that outlives the listening socket.
Get ==
  /\ phase = "run"
  /\ \/ \E i \in 1..Len(servers) : servers[i].st = "listening"
     \/ conn
  /\ lastGet' = RunningPort
  /\ UNCHANGED <<env, procVars, bindVars, pipeVars, shutVars>>

(***************************************************************************)
(* Shutdown.                                                               *)
(***************************************************************************)
\* A shutdown that only returns when there is no server.
ShutdownReturningWithoutServer ==
  IF serverInstance # 0
  THEN /\ servers' = [servers EXCEPT ![serverInstance].st = "stopping"]
       /\ \/ shut.closing /\ conn' = conn
          \/ ~shut.closing /\ conn' \in BOOLEAN
       /\ UNCHANGED procVars
  ELSE UNCHANGED <<procVars, servers, conn>>

\* shutdown(signal): with a server, close it and set the 5 s timer; the
\* close callback waits for the connections still open, and whether one is
\* open is learnt at the first close.  Without a server, exit with 0.
Shutdown ==
  IF serverInstance # 0
  THEN /\ servers' = [servers EXCEPT ![serverInstance].st = "stopping"]
       /\ \/ shut.closing /\ conn' = conn
          \/ ~shut.closing /\ conn' \in BOOLEAN
       /\ UNCHANGED procVars
  ELSE /\ Exit(0, "noServer")
       /\ UNCHANGED <<servers, conn>>

\* A signal handler that sets serverInstance back to null.
SignalResettingInstance ==
  /\ phase = "run"
  /\ shut.calls < MaxShutdowns
  /\ Shutdown
  /\ shut' = IF serverInstance # 0
             THEN [shut EXCEPT !.calls = @ + 1, !.closing = TRUE]
             ELSE [shut EXCEPT !.calls = @ + 1]
  /\ serverInstance' = 0
  /\ UNCHANGED <<env, bind, portStatus, pipeVars, lastGet>>

\* SIGTERM or SIGINT.
Signal ==
  /\ phase = "run"
  /\ shut.calls < MaxShutdowns
  /\ Shutdown
  /\ shut' = IF serverInstance # 0
             THEN [shut EXCEPT !.calls = @ + 1, !.closing = TRUE]
             ELSE [shut EXCEPT !.calls = @ + 1]
  /\ UNCHANGED <<env, bind, portStatus, serverInstance, pipeVars, lastGet>>

\* 'uncaughtException': shutdown, then the 2 s timer (never set when
\* shutdown exits at once).
UncaughtException ==
  /\ phase = "run"
  /\ shut.calls < MaxShutdowns
  /\ Shutdown
  /\ shut' = IF serverInstance # 0
             THEN [shut EXCEPT !.calls = @ + 1, !.closing = TRUE, !.force = TRUE]
             ELSE [shut EXCEPT !.calls = @ + 1]
  /\ UNCHANGED <<env, bind, portStatus, serverInstance, pipeVars, lastGet>>

\* The handler of 'unhandledRejection' with its process.exit(1) in use.
RejectionExitsUncommented == TRUE

\* Whether the handler of 'unhandledRejection' ends the process: its
\* process.exit(1) is commented out.
RejectionExits == FALSE

\* 'unhandledRejection': the rejection is logged.
UnhandledRejection ==
  /\ phase = "run"
  /\ shut.rejections < MaxRejections
  /\ shut' = [shut EXCEPT !.rejections = @ + 1]
  /\ IF RejectionExits THEN Exit(1, "rejection") ELSE UNCHANGED procVars
  /\ UNCHANGED <<env, bindVars, pipeVars, conn, lastGet>>

\* The connection left open ends.
ConnectionEnds ==
  /\ phase = "run"
  /\ shut.closing
  /\ conn
  /\ conn' = FALSE
  /\ UNCHANGED <<env, procVars, bindVars, pipeVars, shut, lastGet>>

\* The callback of serverInstance.close: every connection has ended.
ServerClosed ==
  /\ phase = "run"
  /\ shut.closing
  /\ ~conn
  /\ servers' = [servers EXCEPT ![serverInstance].st = "closed"]
  /\ Exit(0, "closed")
  /\ UNCHANGED <<env, bind, portStatus, serverInstance, pipeVars, shutVars,
                 lastGet>>

\* A shutdown that sets no timer.
GraceTimeoutMissing == FALSE /\ UNCHANGED vars

\* The 5 s timer of shutdown fires: the close callback has not run, a
\* connection is still open.
GraceTimeout ==
  /\ phase = "run"
  /\ shut.closing
  /\ conn
  /\ Exit(1, "graceTimeout")
  /\ UNCHANGED <<env, bindVars, pipeVars, shutVars, lastGet>>

\* The 2 s timer of the 'uncaughtException' handler fires.
ForceTimeout ==
  /\ phase = "run"
  /\ shut.force
  /\ conn
  /\ Exit(1, "forceTimeout")
  /\ UNCHANGED <<env, bindVars, pipeVars, shutVars, lastGet>>

(***************************************************************************)
(* The specifications.                                                     *)
(***************************************************************************)
Next ==
  \/ Boot
  \/ ListenAddrInUse
  \/ FailedServerClosed
  \/ RetryTimer
  \/ ListenOtherError
  \/ Listening
  \/ \E r \in Responses : StartupFetched(r)
  \/ StartupPhotoSettled
  \/ StartupMessageSettled
  \/ Tick
  \/ \E i \in 1..Len(daily) : \E r \in Responses : DailyFetched(i, r)
  \/ \E i \in 1..Len(daily) : DailyPhotoSettled(i)
  \/ \E i \in 1..Len(daily) : DailyMessageSettled(i)
  \/ Get
  \/ Signal
  \/ UncaughtException
  \/ ConnectionEnds
  \/ ServerClosed
  \/ GraceTimeout
  \/ ForceTimeout

Spec == Init /\ [][Next]_vars

\* The run until the first tick of the daily task, with the unhandled
\* rejections, which Next leaves out: their handler changes nothing of the
\* process.
StartNext ==
  \/ Boot
  \/ ListenAddrInUse
  \/ FailedServerClosed
  \/ RetryTimer
  \/ ListenOtherError
  \/ Listening
  \/ \E r \in Responses : StartupFetched(r)
  \/ StartupPhotoSettled
  \/ StartupMessageSettled
  \/ Get
  \/ Signal
  \/ UncaughtException
  \/ UnhandledRejection
  \/ ConnectionEnds
  \/ ServerClosed
  \/ GraceTimeout
  \/ ForceTimeout

\* What the event loop and the operating system guarantee: a started
\* script runs, a listen call is answered, a close callback and a due timer
\* run, and axios.get settles within its 10 s timeout.  Nothing bounds the
\* time bot.sendPhoto and bot.sendMessage take, a client keeps its
\* connection, or a signal arrives.
Fairness ==
  /\ WF_vars(Boot)
  /\ WF_vars(ListenAddrInUse \/ Listening \/ ListenOtherError)
  /\ WF_vars(FailedServerClosed)
  /\ WF_vars(RetryTimer)
  /\ WF_vars(\E r \in Responses : StartupFetched(r))
  /\ WF_vars(ServerClosed)
  /\ WF_vars(GraceTimeout)
  /\ WF_vars(ForceTimeout)

FairSpec == Init /\ [][StartNext]_vars /\ Fairness

\* The pipelines alone, fully configured, on the first port, with every
\* answer of the rate API.  The two pipelines share no state: the daily one
\* is run after a startup whose rate request failed.
RateInit ==
  /\ Init
  /\ env = [botToken |-> TRUE, chatId |-> TRUE, botCtorOk |-> TRUE,
            imageUrl |-> TRUE, dollarApiUrl |-> TRUE]

RateTick ==
  /\ startup.resp = ApiError
  /\ Len(daily) = 0
  /\ Tick

RateNext ==
  \/ Boot
  \/ Listening
  \/ \E r \in RateResponses : StartupFetched(r)
  \/ StartupPhotoSettled
  \/ StartupMessageSettled
  \/ RateTick
  \/ \E i \in 1..Len(daily) : \E r \in RateResponses : DailyFetched(i, r)
  \/ \E i \in 1..Len(daily) : DailyPhotoSettled(i)
  \/ \E i \in 1..Len(daily) : DailyMessageSettled(i)

RateSpec == RateInit /\ [][RateNext]_vars

(***************************************************************************)
(* Properties.                                                             *)
(***************************************************************************)
\* Every invocation of a pipeline that was called.
Invocations ==
  (IF startup.calls > 0 THEN {startup} ELSE {})
    \cup {daily[i] : i \in 1..Len(daily)}

InProgress(inv) == inv.pc \in {"fetch", "photo", "msg"}

\* The ports startServer may try.
TriedRange == InitialPort..(InitialPort + MAX_PORT_ATTEMPTS - 1)

AllInUse == \A q \in TriedRange : portStatus[q] = "inuse"

\* The server bound to a port, if any.
Bound == {i \in 1..Len(servers) : servers[i].st = "listening"}

\* C1: the port retry.  A server that listens, listens on the lowest port
\* at or above initialPort that is not in use: the operating system
\* answered EADDRINUSE for every lower port and the port lies in the range
\* of MAX_PORT_ATTEMPTS ports; no later port is tried; every 200 answer of
\* GET / names the port of the bound server; the ports are given up only
\* when each of them is in use; and a started run comes to listen or exits.
C1_ListensOnLowestFree ==
  /\ \A i \in Bound \cup ({serverInstance} \ {0}) :
       /\ servers[i].port \in TriedRange
       /\ portStatus[servers[i].port] = "free"
       /\ \A q \in InitialPort..(servers[i].port - 1) : portStatus[q] = "inuse"
       /\ i = serverInstance
       /\ i = Current
       /\ bind = [st |-> "bound", port |-> servers[i].port]
  /\ lastGet.status = 200 =>
       /\ serverInstance # 0
       /\ lastGet.body = "port"
       /\ lastGet.port = servers[serverInstance].port
  /\ exitBy = "ports" => AllInUse

C1_PortRetry ==
  /\ []C1_ListensOnLowestFree
  /\ (phase = "run") ~> (serverInstance # 0 \/ phase = "exited")

\* The first port was in use, the second was free, and GET / was answered.
C1_Witness ==
  /\ serverInstance # 0
  /\ servers[serverInstance].port = InitialPort + 1
  /\ servers[serverInstance].st = "listening"
  /\ lastGet = [status |-> 200, body |-> "port", port |-> InitialPort + 1]

\* C2: the ports used up.  When all MAX_PORT_ATTEMPTS ports from
\* initialPort are in use the process does not listen; it exits by the cap
\* of startServer only then, with status 1, after exactly MAX_PORT_ATTEMPTS
\* attempts, each server closed and serverInstance still null.
C2_PortExhaustion ==
  /\ AllInUse =>
       /\ serverInstance = 0
       /\ Bound = {}
       /\ Len(servers) = MAX_PORT_ATTEMPTS
  /\ Len(servers) <= MAX_PORT_ATTEMPTS
  /\ exitBy = "ports" =>
       /\ AllInUse
       /\ phase = "exited"
       /\ exitCode = 1
       /\ serverInstance = 0
       /\ \A i \in 1..Len(servers) :
            /\ servers[i].st = "closed"
            /\ servers[i].port = InitialPort + i - 1

C2_Witness == exitBy = "ports" /\ Len(servers) = MAX_PORT_ATTEMPTS

\* C3: the fallback.  With an image configured an invocation issues
\* sendPhoto once; it issues sendMessage once if that sendPhoto failed and
\* never otherwise, with the banner and the caption of the photo; when the
\* message fails too, both errors are logged, nothing more is sent and the
\* function returns.
C3_SendFallback ==
  \A inv \in Invocations :
    /\ inv.photos <= 1
    /\ inv.pc \in {"photo", "msg", "done"} /\ env.imageUrl => inv.photos = 1
    /\ inv.msgs = IF inv.photoSt = "fail" THEN 1 ELSE 0
    /\ inv.msgs = 1 => inv.msgText = [banner |-> TRUE, caption |-> inv.caption]
    /\ inv.photoSt = "fail" => "photoError" \in inv.logs
    /\ inv.msgSt = "fail" =>
         /\ inv.logs = {"photoError", "fallbackError"}
         /\ inv.pc = "done"
         /\ inv.photos = 1
         /\ inv.msgs = 1
    /\ inv.result # "threw"
    /\ inv.pc = "done" <=> inv.result = "returned"

\* Both sends of an invocation failed, of the startup one and of a daily one.
C3_Witness ==
  /\ startup.msgSt = "fail"
  /\ startup.result = "returned"
  /\ \E i \in 1..Len(daily) : daily[i].msgSt = "fail" /\ daily[i].result = "returned"

\* C4: the daily task survives failures.  Once cron.schedule was called the
\* task stays registered whatever the invocations of sendDailyUpdate did,
\* each tick has called sendDailyUpdate, and the process exits only by a
\* shutdown, never by a tick.
C4_TaskSurvivesFailures ==
  /\ cron.calls >= 1 => cron.armed
  /\ Len(daily) = cron.ticks
  /\ \A i \in 1..Len(daily) : daily[i].calls = 1 /\ daily[i].result # "threw"
  /\ cron.ticks >= 1 /\ phase = "exited" =>
       exitBy \in {"closed", "graceTimeout", "forceTimeout"}

\* The first tick failed at the rate API and at both sends; the task fired
\* again and the second invocation sent its photo.
C4_Witness ==
  /\ Len(daily) = 2
  /\ daily[1].resp = ApiError
  /\ daily[1].msgSt = "fail"
  /\ daily[2].pc = "done"
  /\ daily[2].photoSt = "ok"
  /\ cron.armed
  /\ phase = "run"

\* C5: no rate API configured.  Without DOLLAR_API_URL no invocation
\* requests anything, and what it sends carries the caption that says the
\* rate API is not configured.
C5_Unconfigured ==
  ~env.dollarApiUrl =>
    \A inv \in Invocations :
      /\ inv.gets = 0
      /\ inv.resp = NoResponse
      /\ inv.photos >= 1 => inv.caption = UnconfiguredCaption(inv.kind)
      /\ inv.msgs >= 1 => inv.msgText.caption = UnconfiguredCaption(inv.kind)

C5_Witness ==
  /\ ~env.dollarApiUrl
  /\ startup.photos = 1
  /\ startup.msgs = 1
  /\ \E i \in 1..Len(daily) : daily[i].photos = 1 /\ daily[i].pc = "done"

\* The prices that are plain decimal numbers, in thousandths.
PlainMillis == GridPrices \cup {40000}

IsPlain(price) == \E n \in PlainMillis : price = MilliText(n)

MilliOf(price) == CHOOSE n \in PlainMillis : price = MilliText(n)

Distance(a, b) == IF a >= b THEN a - b ELSE b - a

\* The invocations that built a caption from an answer with prices.
Answered == {inv \in Invocations : inv.resp.ok /\ inv.pc \in {"photo", "msg", "done"}}

\* C6: prices that are no numbers.  As stated: when a price of the answer
\* is missing, is no number, is only partly a number or is not finite, the
\* caption says the rates are unavailable and shows no figure.
C6_UnavailableUnlessNumeric ==
  \A inv \in Answered :
    ~IsPlain(inv.resp.bcv) \/ ~IsPlain(inv.resp.par) =>
      /\ inv.caption.body = "unavailable"
      /\ inv.caption.bcv = NoFigure
      /\ inv.caption.par = NoFigure
      /\ inv.caption.avg = NoFigure

\* C7, as stated: the figures of a rates caption are the two prices and
\* their arithmetic mean, rounded to two decimals, a half rounded up.
C7_MeanRoundedHalfUp ==
  \A inv \in Answered :
    IsPlain(inv.resp.bcv) /\ IsPlain(inv.resp.par) =>
      LET a == MilliOf(inv.resp.bcv)
          b == MilliOf(inv.resp.par)
      IN  /\ inv.caption.body = "rates"
          /\ inv.caption.bcv = [t |-> "num", cents |-> (a + 5) \div 10]
          /\ inv.caption.par = [t |-> "num", cents |-> (b + 5) \div 10]
          /\ inv.caption.avg = [t |-> "num", cents |-> (a + b + 10) \div 20]

\* C7: the average.  With two plain decimal prices the caption shows the
\* rates, and each figure is a two-decimal number nearest to its value: the
\* price for the two rates, the arithmetic mean of the prices for the
\* average.  A value with a nearest two-decimal number is shown as that
\* number; at a value halfway between two of them either may be shown.
C7_MeanToNearestCent ==
  \A inv \in Answered :
    IsPlain(inv.resp.bcv) /\ IsPlain(inv.resp.par) =>
      LET a == MilliOf(inv.resp.bcv)
          b == MilliOf(inv.resp.par)
      IN  /\ inv.caption.body = "rates"
          /\ inv.caption.bcv.t = "num"
          /\ inv.caption.par.t = "num"
          /\ inv.caption.avg.t = "num"
          /\ Distance(10 * inv.caption.bcv.cents, a) <= 5
          /\ Distance(10 * inv.caption.par.cents, b) <= 5
          /\ Distance(20 * inv.caption.avg.cents, a + b) <= 10

\* 36.500 and 36.510 were answered and their mean 36.505 was sent as 36.50.
C7_Witness ==
  /\ startup.resp = ApiError
  /\ startup.pc = "done"
  /\ \E i \in 1..Len(daily) :
       /\ daily[i].resp = ApiData(MilliText(36500), MilliText(36510))
       /\ daily[i].caption.bcv = [t |-> "num", cents |-> 3650]
       /\ daily[i].caption.par = [t |-> "num", cents |-> 3651]
       /\ daily[i].caption.avg = [t |-> "num", cents |-> 3650]
       /\ daily[i].photoSt = "ok"

\* C8, as stated: a run that reaches Listening reaches a state where
\* cron.schedule has been called, unless a shutdown begins.
C8_ListeningLeadsToSchedule ==
  (serverInstance # 0) ~> (cron.calls >= 1 \/ shut.calls > 0)

\* A send of the startup pipeline is awaited.
StartupSendPending == startup.pc \in {"photo", "msg"}

C8_CallbackOrder ==
  /\ serverInstance # 0 =>
       /\ serverInstance = Current
       /\ servers[serverInstance].st # "listenCalled"
       /\ startup.calls = 1
       /\ startup.srv = serverInstance
  /\ cron.calls = (IF startup.pc = "done" THEN 1 ELSE 0)
  /\ cron.armed <=> cron.calls = 1

\* C8: the startup sequence.  On Listening the bound server is recorded in
\* serverInstance and the startup pipeline is called; cron.schedule is
\* called when that call has returned, not before; and a run that reaches
\* Listening and in which no send of the startup pipeline stays pending for
\* ever reaches a state where cron.schedule has been called, unless a
\* shutdown begins, whatever the rate API answered and the sends did.
C8_ScheduleAfterSettledStartup ==
  /\ []C8_CallbackOrder
  /\ \/ <>[]StartupSendPending
     \/ (serverInstance # 0) ~> (cron.calls >= 1 \/ shut.calls > 0)

\* The rate request failed, both sends failed, and cron.schedule was called.
C8_Witness ==
  /\ serverInstance # 0
  /\ startup.resp = ApiError
  /\ startup.msgSt = "fail"
  /\ cron.calls = 1
  /\ shut.calls = 0

\* C9: once per process.  The startup pipeline and cron.schedule are each
\* called at most once, from the listen callback of the server that bound
\* its port; a listen attempt that failed calls neither.
C9_OncePerProcess ==
  /\ startup.calls <= 1
  /\ cron.calls <= 1
  /\ serverInstance = 0 => startup.calls = 0 /\ cron.calls = 0
  /\ startup.calls = 1 =>
       /\ startup.srv = serverInstance
       /\ portStatus[servers[startup.srv].port] = "free"
       /\ servers[startup.srv].st \in {"listening", "stopping", "closed"}
  /\ cron.calls = 1 => cron.srv = startup.srv /\ startup.calls = 1
  /\ \A i \in 1..Len(servers) :
       portStatus[servers[i].port] # "free" => i \notin {startup.srv, cron.srv}

\* A listen attempt failed, the next one bound, and both calls were made.
C9_Witness ==
  /\ Len(servers) = 2
  /\ servers[1].st = "closed"
  /\ serverInstance = 2
  /\ startup.calls = 1
  /\ cron.calls = 1

\* C10, as stated: no two invocations of the pipelines are in progress at
\* the same time.
C10_NoTwoInProgress ==
  /\ InProgress(startup) => \A i \in 1..Len(daily) : ~InProgress(daily[i])
  /\ \A i, j \in 1..Len(daily) :
       i # j => ~(InProgress(daily[i]) /\ InProgress(daily[j]))

\* C10: overlap.  The startup invocation never runs together with a daily
\* one: the daily task exists only once the startup invocation is over.
\* Daily invocations may run together, and then each but the latest is
\* waiting for a send to settle.
C10_StartupNeverOverlapsDaily ==
  /\ InProgress(startup) => daily = <<>> /\ cron.calls = 0 /\ ~cron.armed
  /\ daily # <<>> => startup.pc = "done"
  /\ \A i, j \in 1..Len(daily) :
       i < j /\ InProgress(daily[i]) /\ InProgress(daily[j]) =>
         daily[i].pc \in {"photo", "msg"}

\* The photo of the first tick is still being sent while the second tick's
\* invocation asks for the rates.
C10_Witness ==
  /\ startup.pc = "done"
  /\ Len(daily) = 2
  /\ daily[1].pc = "photo"
  /\ daily[2].pc = "fetch"

\* What a shutdown with a server does, and how the process then ends.
C11_ClosesAndExitCodes ==
  /\ shut.closing =>
       /\ serverInstance # 0
       /\ servers[serverInstance].st \in {"stopping", "closed"}
       /\ Bound = {}
  /\ exitBy = "closed" => exitCode = 0 /\ ~conn /\ shut.closing
  /\ exitBy = "graceTimeout" => exitCode = 1 /\ conn /\ shut.closing

\* C11: a signal while listening.  The shutdown closes the listening
\* socket and the process ends: with status 0 from the close callback when
\* no connection is left open, with status 1 from the 5 s timer while one
\* is; a second signal during the 5 s changes none of it.
C11_SignalTerminates ==
  /\ []C11_ClosesAndExitCodes
  /\ shut.closing ~> (phase = "exited")

\* Two signals, a connection that stays open, and the 5 s timer ended the
\* process.
C11_Witness ==
  /\ shut.calls = 2
  /\ ~shut.force
  /\ conn
  /\ exitBy = "graceTimeout"
  /\ exitCode = 1

\* C12, as stated: after an unhandled rejection or an uncaught exception
\* the process terminates.
C12_BothKindsTerminate ==
  (shut.rejections > 0 \/ shut.force) ~> (phase = "exited")

C12_OnlyExceptionsShutDown ==
  /\ exitBy # "rejection"
  /\ shut.closing => shut.calls > 0
  /\ shut.calls = 0 /\ phase = "exited" =>
       exitBy \in {"config", "bot", "ports", "listenError"}
  /\ shut.force => shut.closing /\ servers[serverInstance].st \in {"stopping", "closed"}
  /\ exitBy = "forceTimeout" => exitCode = 1 /\ conn /\ shut.force

\* C12: uncaught errors.  An uncaught exception runs the shutdown of a
\* signal and sets a 2 s timer that exits with status 1: the process ends
\* even when the close callback never runs.  An unhandled rejection is
\* logged only: it starts no shutdown and never ends the process.
C12_ExceptionTerminatesRejectionLogs ==
  /\ []C12_OnlyExceptionsShutDown
  /\ shut.force ~> (phase = "exited")

\* A rejection was logged and the process went on; a later uncaught
\* exception ended it by the 2 s timer.
C12_Witness ==
  /\ shut.rejections = 1
  /\ shut.calls = 1
  /\ cron.calls = 1
  /\ exitBy = "forceTimeout"

\* C13: GET /.  As stated: every request that is handled is answered with
\* 200 and the port the server is bound to, never with 'unknown' and never
\* with an error, also on a connection that outlives the listening socket.
C13_GetAlwaysNamesPort ==
  lastGet.status # 0 =>
    /\ lastGet.status = 200
    /\ lastGet.body = "port"
    /\ serverInstance # 0
    /\ lastGet.port = servers[serverInstance].port

\* C14: a failed rate request.  With both URLs configured every invocation
\* issues one request to the rate API and no second one; whatever the
\* answer (a failure, bad data, good data) it goes on to one sendPhoto,
\* with a caption that only says less; the failure does not leave the
\* function and the process keeps running.
C14_FetchFailureDegrades ==
  /\ phase # "exited"
  /\ \A inv \in Invocations :
       /\ inv.gets = 1
       /\ inv.pc = "fetch" => inv.photos = 0 /\ inv.resp = NoResponse
       /\ inv.pc \in {"photo", "msg", "done"} =>
            /\ inv.photos = 1
            /\ inv.resp \in RateResponses
            /\ inv.caption.kind = inv.kind
            /\ inv.caption.body =
                 (IF ~inv.resp.ok THEN "fetchError"
                  ELSE IF inv.caption.avg = NoFigure THEN "unavailable"
                  ELSE "rates")
       /\ inv.result # "threw"
       /\ "unhandledRejection" \notin inv.logs
       /\ "cronJobError" \notin inv.logs

\* The request of the startup pipeline failed and that of a daily one
\* brought no number; each sent its photo.
C14_Witness ==
  /\ startup.resp = ApiError
  /\ startup.photos = 1
  /\ startup.pc = "done"
  /\ \E i \in 1..Len(daily) :
       /\ daily[i].resp = ApiData(<<"a", "b", "c">>, Undefined)
       /\ daily[i].caption.body = "unavailable"
       /\ daily[i].photos = 1
       /\ daily[i].pc = "done"

C15_NothingStarted ==
  ~env.botToken \/ ~env.chatId =>
    /\ phase \in {"boot", "exited"}
    /\ phase = "exited" => exitCode = 1 /\ exitBy = "config"
    /\ servers = <<>>
    /\ bind.st = "none"
    /\ serverInstance = 0
    /\ startup = NewInvocation("startup")
    /\ daily = <<>>
    /\ cron.calls = 0 /\ ~cron.armed
    /\ lastGet.status = 0

\* C15: missing configuration.  Without the bot token or the chat id the
\* process exits with status 1 and has done nothing before: no listen
\* attempt, no request to the rate API, no send, no cron.schedule.
C15_MissingConfigFatal ==
  /\ []C15_NothingStarted
  /\ (~env.botToken \/ ~env.chatId) ~> (phase = "exited")

\* The token is set, the chat id is not, and the process has exited.
C15_Witness ==
  /\ env.botToken
  /\ ~env.chatId
  /\ env.botCtorOk
  /\ phase = "exited"
  /\ exitCode = 1
  /\ exitBy = "config"

\* C16: the bind state machine.  The listen attempts go to initialPort,
\* initialPort + 1, ... in this order, each port once, at most
\* MAX_PORT_ATTEMPTS of them; an attempt follows only an attempt that was
\* answered EADDRINUSE and whose server is closed, so only the latest
\* server can be asking for its port or bound to it.
C16_BindStateMachine ==
  /\ Len(servers) <= MAX_PORT_ATTEMPTS
  /\ \A i \in 1..Len(servers) : servers[i].port = InitialPort + i - 1
  /\ \A i \in 1..(Len(servers) - 1) :
       /\ servers[i].st = "closed"
       /\ portStatus[servers[i].port] = "inuse"
  /\ Cardinality({i \in 1..Len(servers) :
                    servers[i].st \in {"listenCalled", "listening"}}) <= 1
  /\ bind.st # "none" => Len(servers) >= 1 /\ bind.port = servers[Current].port
  /\ bind.st = "bound" => portStatus[bind.port] = "free"
  /\ bind.st \in {"closing", "delay"} => portStatus[bind.port] = "inuse"

\* The last of the MAX_PORT_ATTEMPTS attempts is under way.
C16_Witness ==
  /\ Len(servers) = MAX_PORT_ATTEMPTS
  /\ servers[MAX_PORT_ATTEMPTS].st = "listenCalled"
  /\ servers[MAX_PORT_ATTEMPTS].port = InitialPort + MAX_PORT_ATTEMPTS - 1
  /\ phase = "run"

\* C17: another listen error.  When listen fails with a code other than
\* EADDRINUSE the process exits with status 1 in the 'error' handler: no
\* further port is tried, the startup pipeline is not called and
\* cron.schedule is not called.
C17_OtherErrorFatal ==
  /\ (\E q \in Ports : portStatus[q] = "error") <=> exitBy = "listenError"
  /\ exitBy = "listenError" =>
       /\ phase = "exited"
       /\ exitCode = 1
       /\ servers[Current].st = "failed"
       /\ portStatus[servers[Current].port] = "error"
       /\ bind = [st |-> "listen", port |-> servers[Current].port]
       /\ serverInstance = 0
       /\ startup.calls = 0
       /\ cron.calls = 0
       /\ daily = <<>>

\* The first port was in use and the second attempt failed otherwise.
C17_Witness ==
  /\ exitBy = "listenError"
  /\ Len(servers) = 2
  /\ portStatus[InitialPort] = "inuse"
  /\ portStatus[InitialPort + 1] = "error"

C18_NullUntilBound ==
  /\ serverInstance = 0 <=> bind.st # "bound"
  /\ serverInstance # 0 =>
       /\ serverInstance = Current
       /\ portStatus[servers[serverInstance].port] = "free"

\* C18: serverInstance is written once.  It is null until a listen
\* callback runs, through every failed attempt and retry delay; the listen
\* callback sets it to the server that bound; no later step, of the
\* shutdown or any other, changes it.
C18_WrittenOnce ==
  /\ []C18_NullUntilBound
  /\ [][/\ serverInstance # 0 => serverInstance' = serverInstance
        /\ serverInstance' # serverInstance =>
             /\ bind.st = "listen"
             /\ servers'[serverInstance'].st = "listening"]_vars

\* An attempt failed, the next server bound, a shutdown closed it and the
\* process exited: serverInstance is still that server.
C18_Witness ==
  /\ Len(servers) = 2
  /\ serverInstance = 2
  /\ servers[2].st = "closed"
  /\ exitBy = "closed"

\* C19: no image configured.  Without TELEGRAM_IMAGE_URL an invocation
\* returns at once: no request to the rate API, no sendPhoto, no
\* sendMessage; and cron.schedule is called in the step in which the server
\* starts to listen.
C19_NoImageNoOutput ==
  ~env.imageUrl =>
    /\ \A inv \in Invocations :
         /\ inv.gets = 0
         /\ inv.photos = 0
         /\ inv.msgs = 0
         /\ inv.pc = "done"
         /\ inv.result = "returned"
         /\ inv.caption = NoCaption
         /\ inv.logs = {}
    /\ serverInstance # 0 =>
         /\ startup.calls = 1
         /\ cron.calls = 1
         /\ cron.armed

\* No image, but a rate API, is configured; the server listens, the task is
\* registered and has fired once.
C19_Witness ==
  /\ ~env.imageUrl
  /\ env.dollarApiUrl
  /\ serverInstance # 0
  /\ startup.pc = "done"
  /\ cron.calls = 1
  /\ Len(daily) = 1
  /\ daily[1].pc = "done"

C20_ExitedAtOnce ==
  /\ shut.calls > 0 /\ ~shut.closing => phase = "exited" /\ exitBy = "noServer"
  /\ exitBy = "noServer" =>
       /\ phase = "exited"
       /\ exitCode = 0
       /\ shut.calls = 1
       /\ ~shut.closing /\ ~shut.force /\ ~conn
       /\ serverInstance = 0
       /\ bind.st \in {"listen", "closing", "delay"}
       /\ \A i \in 1..Len(servers) : servers[i].st \notin {"listening", "stopping"}
       /\ startup.calls = 0
       /\ cron.calls = 0

\* C20: a shutdown without a server.  While serverInstance is null (a
\* listen call is unanswered, a failed server is closing, the retry timer
\* runs) a shutdown ends the process at once with status 0: nothing is
\* closed, no timer is set; and an ended process takes no further step, so
\* no listen attempt, startup call or cron.schedule follows.
C20_ShutdownWithoutServer ==
  /\ []C20_ExitedAtOnce
  /\ [][phase # "exited"]_vars

\* The signal came during the retry delay after the first failed attempt.
C20_Witness ==
  /\ exitBy = "noServer"
  /\ exitCode = 0
  /\ bind.st = "delay"
  /\ Len(servers) = 1
  /\ servers[1].st = "closed"

====
